---- MODULE Spec2Model ----
(***************************************************************************)
(* EmotionalOptimizer (src/emotigrad/base.py): a dataclass that wraps an   *)
(* optimizer, forwards step() and zero_grad() to it, counts steps, keeps   *)
(* the previous loss and lets a personality callable turn (loss,           *)
(* prev_loss, step) into an optional message that is handed to print_fn.   *)
(*                                                                         *)
(* Optional values (Python None / a value) are sequences of length 0 or 1. *)
(* A call that can return or raise yields [tag, val].                      *)
(***************************************************************************)
EXTENDS Integers, Sequences, FiniteSets, TLC

VARIABLES
    ctor,           \* the constructor call: its arguments and what it raised
    constructed,    \* TRUE once EmotionalOptimizer(...) has returned an object
    personality,    \* field: the personality callable
    enabled,        \* field
    print_fn,       \* field: the output sink
    _step,          \* self._step
    _prev_loss,     \* self._prev_loss (Optional)
    opt_step_calls, \* how often the wrapped optimizer's step() was entered
    opt_zero_calls, \* how often the wrapped optimizer's zero_grad() was entered
    opt_last,       \* the arguments the wrapped optimizer received last
    losses,         \* the loss bound by each step() call that passed the optimizer
    invocations,    \* the (loss, prev_loss, step) of each personality call
    printed,        \* how often print_fn was called
    messages,       \* what a capturing print_fn has received
    calls,          \* number of step()/zero_grad() calls made by the caller
    step_returns,   \* number of step() calls that returned to the caller
    step_raises,    \* number of step() calls that raised to the caller
    last,           \* the caller's view of the most recent call
    registry,       \* personalities._PERSONALITY_REGISTRY
    reg_calls,      \* number of registry calls made
    reg_last,       \* the caller's view of the most recent registry call
    strat_last,     \* the most recent direct call of a built-in personality
    quiet_calls,    \* how often the registry's QuietPersonality instance was called
    color_last,     \* the most recent colorize() call and what strip_colors makes of it
    strat_repeat    \* "same"/"differs": the last direct call repeated the personality and
                    \* arguments of the call before it, with the same/another result

optvars == <<ctor, constructed, personality, enabled, print_fn, _step, _prev_loss,
             opt_step_calls, opt_zero_calls, opt_last, losses, invocations,
             printed, messages, calls, step_returns, step_raises, last>>
regvars == <<registry, reg_calls, reg_last>>
stratvars == <<strat_last, quiet_calls, strat_repeat>>
vars == <<optvars, regvars, stratvars, color_last>>

----------------------------------------------------------------------------
(* Bounds of the exploration *)

MaxCalls == 3       \* step()/zero_grad() calls per behaviour
MaxArgCalls == 1    \* the same, when calls take positional and extra keyword arguments
MaxLoss == 1        \* losses are 0..MaxLoss
MaxCadence == 2     \* message_every values a caller asks for are 0..MaxCadence
MaxRegCalls == 3    \* registry calls per behaviour
MaxQuietCalls == 2  \* direct calls of the quiet personality per behaviour
MaxTextLen == 3     \* texts given to colorize have at most MaxTextLen characters
MaxCodes == 2       \* colorize is given at most MaxCodes colour codes
MaxStratStep == 2   \* step arguments of direct personality calls include 1..MaxStratStep
\* QuietPersonality.__init__(self, every_n_steps: int = 10)
every_n_steps == 10

None == <<>>
Some(v) == <<v>>

LossVals == 0 .. MaxLoss
Cadences == 0 .. MaxCadence

\* the callables the tests and the dataclass default pass as personality
Callables == {"default", "echo", "silent", "faulty", "blank"}
\* the str objects the tests pass as personality: a registered name, the same
\* name in another letter case, a name that is not registered
StrArgs == {"'sassy'", "'Sassy'", "'nonexistent_personality'"}
Personalities == Callables \cup StrArgs
\* print_fn: a capturing sink (messages.append) or one that raises
PrintFns == {"capture", "broken"}
\* what the wrapped optimizer's step() does when entered
OptResults == {"None", "closure_loss"}
OptOutcomes == {[tag |-> "return", val |-> r] : r \in OptResults}
                  \cup {[tag |-> "raise", val |-> "RuntimeError"]}

Return(v) == [tag |-> "return", val |-> v]
Raise(e) == [tag |-> "raise", val |-> e]

\* keyword arguments: a function from a set of names to values
KwOver(names) == UNION {[S -> LossVals] : S \in SUBSET names}
\* positional arguments of step(): none, one, or two
PosArgs == {<<>>} \cup {<<v>> : v \in LossVals} \cup {<<v, w>> : v \in LossVals, w \in {0}}

----------------------------------------------------------------------------
(* Personalities *)

Msg(text, loss, prev, step) == [text |-> text, loss |-> loss, prev |-> prev, step |-> step]

\* base.py _default_personality: intro / improved / worse / None when unchanged
\* (formatting or comparing a loss of None raises TypeError)
_default_personality(loss, prev_loss, step) ==
    IF loss = None THEN Raise("TypeError")
    ELSE IF prev_loss = None
    THEN Return(Some(Msg("Starting our journey", loss, prev_loss, step)))
    ELSE IF loss[1] < prev_loss[1] THEN Return(Some(Msg("Nice", loss, prev_loss, step)))
    ELSE IF loss[1] > prev_loss[1] THEN Return(Some(Msg("It's okay", loss, prev_loss, step)))
    ELSE Return(None)

\* tests: fake_personality returns an f-string of its arguments
fake_personality(loss, prev_loss, step) == Return(Some(Msg("step=", loss, prev_loss, step)))

\* tests: a personality that records its call and returns None
silent_personality(loss, prev_loss, step) == Return(None)

\* tests: faulty_personality raises RuntimeError
faulty_personality(loss, prev_loss, step) == Raise("RuntimeError")

\* a personality whose message is the empty string
blank_personality(loss, prev_loss, step) == Return(Some(Msg("", loss, prev_loss, step)))

CallPersonality(p, loss, prev_loss, step) ==
    CASE p = "default" -> _default_personality(loss, prev_loss, step)
      [] p = "echo"    -> fake_personality(loss, prev_loss, step)
      [] p = "silent"  -> silent_personality(loss, prev_loss, step)
      [] p = "faulty"  -> faulty_personality(loss, prev_loss, step)
      [] p = "blank"   -> blank_personality(loss, prev_loss, step)
      \* a str is stored as it is given; calling it: 'str' object is not callable
      [] p \in StrArgs -> Raise("TypeError")

----------------------------------------------------------------------------
(* personalities.py: the registry.                                          *)
(* A str is the sequence of its characters. A dict is the sequence of its   *)
(* [key, value] items in insertion order.                                   *)

UpperCase == <<"A", "B", "C", "D", "E", "F", "G", "H", "I", "J", "K", "L", "M",
               "N", "O", "P", "Q", "R", "S", "T", "U", "V", "W", "X", "Y", "Z">>
LowerCase == <<"a", "b", "c", "d", "e", "f", "g", "h", "i", "j", "k", "l", "m",
               "n", "o", "p", "q", "r", "s", "t", "u", "v", "w", "x", "y", "z">>
\* the characters of the names, in ascending code point order: "A".."Z" < "_" < "a".."z"
CodeOrder == UpperCase \o <<"_">> \o LowerCase
Code(c) == CHOOSE i \in 1 .. Len(CodeOrder) : CodeOrder[i] = c

IsUpper(c) == \E i \in 1 .. Len(UpperCase) : UpperCase[i] = c
IsLower(c) == \E i \in 1 .. Len(LowerCase) : LowerCase[i] = c
LowerChar(c) == IF IsUpper(c) THEN LowerCase[CHOOSE i \in 1 .. Len(UpperCase) : UpperCase[i] = c]
                ELSE c
UpperChar(c) == IF IsLower(c) THEN UpperCase[CHOOSE i \in 1 .. Len(LowerCase) : LowerCase[i] = c]
                ELSE c

\* (variant: the name is used as the key as it is given)
lower_Identity(name) == name

\* str.lower()
lower(name) == [i \in 1 .. Len(name) |-> LowerChar(name[i])]

\* str < str: lexicographic by code point, a proper prefix is smaller
StrLess(a, b) ==
    \E i \in 1 .. Len(b) :
        /\ i <= Len(a) + 1
        /\ \A j \in 1 .. (i - 1) : a[j] = b[j]
        /\ (i = Len(a) + 1 \/ Code(a[i]) < Code(b[i]))

RECURSIVE InsertSorted(_, _)
InsertSorted(x, s) ==
    IF s = <<>> THEN <<x>>
    ELSE IF StrLess(x, Head(s)) THEN <<x>> \o s
    ELSE <<Head(s)>> \o InsertSorted(x, Tail(s))

\* sorted(iterable of str): a new list in ascending order
RECURSIVE sorted(_)
sorted(s) == IF s = <<>> THEN <<>>
             ELSE InsertSorted(s[Len(s)], sorted(SubSeq(s, 1, Len(s) - 1)))

RECURSIVE Join(_, _)
\* sep.join(list of str)
Join(sep, s) == IF s = <<>> THEN <<>>
                ELSE IF Len(s) = 1 THEN s[1]
                ELSE s[1] \o sep \o Join(sep, Tail(s))

\* dict operations: d.keys(), key in d, d[key], d[key] = value
Keys(d) == [i \in 1 .. Len(d) |-> d[i].key]
HasKey(d, k) == \E i \in 1 .. Len(d) : d[i].key = k
Lookup(d, k) == d[CHOOSE i \in 1 .. Len(d) : d[i].key = k].value
\* (variant: the item is always added, an existing key is kept beside it)
Assign_Duplicate(d, k, v) == Append(d, [key |-> k, value |-> v])

Assign(d, k, v) ==
    IF HasKey(d, k)
    THEN [i \in 1 .. Len(d) |-> IF d[i].key = k THEN [key |-> k, value |-> v] ELSE d[i]]
    ELSE Append(d, [key |-> k, value |-> v])

Str_wholesome == <<"w", "h", "o", "l", "e", "s", "o", "m", "e">>
Str_sassy == <<"s", "a", "s", "s", "y">>
Str_quiet == <<"q", "u", "i", "e", "t">>
Str_nervous == <<"n", "e", "r", "v", "o", "u", "s">>
Str_chaotic == <<"c", "h", "a", "o", "t", "i", "c">>
Str_arrogant == <<"a", "r", "r", "o", "g", "a", "n", "t">>
Str_tired == <<"t", "i", "r", "e", "d">>
Str_hype == <<"h", "y", "p", "e">>
Str_academic == <<"a", "c", "a", "d", "e", "m", "i", "c">>
Str_pirate == <<"p", "i", "r", "a", "t", "e">>
Str_zen == <<"z", "e", "n">>

\* _PERSONALITY_REGISTRY as the module defines it
_PERSONALITY_REGISTRY ==
    <<[key |-> Str_wholesome, value |-> "wholesome"],
        [key |-> Str_sassy, value |-> "sassy"],
        [key |-> Str_quiet, value |-> "quiet"],
        [key |-> Str_nervous, value |-> "nervous"],
        [key |-> Str_chaotic, value |-> "chaotic"],
        [key |-> Str_arrogant, value |-> "arrogant"],
        [key |-> Str_tired, value |-> "tired"],
        [key |-> Str_hype, value |-> "hype"],
        [key |-> Str_academic, value |-> "academic"],
        [key |-> Str_pirate, value |-> "pirate"],
        [key |-> Str_zen, value |-> "zen"]>>

\* (variant: overwrite is not consulted, an existing name is replaced)
register_personality_NoCheck(reg, name, p, overwrite) ==
    [tag |-> "return", error |-> "", reg |-> Assign(reg, lower(name), p)]

\* register_personality(name, personality, *, overwrite=False)
register_personality(reg, name, p, overwrite) ==
    LET key == lower(name)
    IN IF ~overwrite /\ HasKey(reg, key)
       THEN [tag |-> "raise", error |-> "ValueError", reg |-> reg]
       ELSE [tag |-> "return", error |-> "", reg |-> Assign(reg, key, p)]

\* (variant: the message names only the unknown personality)
UnknownMessage_NoList(reg, name) ==
    <<"U", "n", "k", "n", "o", "w", "n", " ", "p", "e", "r", "s", "o", "n", "a", "l", "i", "t", "y", " ", "'">>
        \o name \o <<"'">>

\* f"Unknown personality '{name}'. Available: {available}"
UnknownMessage(reg, name) ==
    <<"U", "n", "k", "n", "o", "w", "n", " ", "p", "e", "r", "s", "o", "n", "a", "l", "i", "t", "y", " ", "'">>
        \o name
        \o <<"'", ".", " ", "A", "v", "a", "i", "l", "a", "b", "l", "e", ":", " ">>
        \o Join(<<",", " ">>, sorted(Keys(reg)))

\* (variant: the lookup does not lower-case the name)
get_personality_NoLower(reg, name) ==
    IF HasKey(reg, name)
    THEN [tag |-> "return", error |-> "", value |-> Lookup(reg, name), text |-> <<>>]
    ELSE [tag |-> "raise", error |-> "KeyError", value |-> "", text |-> UnknownMessage(reg, name)]

\* get_personality(name)
get_personality(reg, name) ==
    LET key == lower(name)
    IN IF HasKey(reg, key)
       THEN [tag |-> "return", error |-> "", value |-> Lookup(reg, key), text |-> <<>>]
       ELSE [tag |-> "raise", error |-> "KeyError", value |-> "",
             text |-> UnknownMessage(reg, name)]

\* (variant: the keys in insertion order)
list_personalities_Unsorted(reg) == Keys(reg)

\* list_personalities()
list_personalities(reg) == sorted(Keys(reg))

\* names callers pass: built-in names in several letter cases, new names, a name
\* that is never registered
RegNames == {Str_zen, <<"Z", "E", "N">>, <<"Z", "e", "n">>, Str_hype,
             <<"a", "b">>, <<"A", "b">>, <<"a", "_", "b">>, <<"n", "o", "p", "e">>}
\* the personalities callers register
CustomPersonalities == {"custom_personality", "new_wholesome"}

\* the characters of the str objects passed as personality
StrValue(p) ==
    CASE p = "'sassy'" -> Str_sassy
      [] p = "'Sassy'" -> <<"S">> \o Tail(Str_sassy)
      [] p = "'nonexistent_personality'" ->
            <<"n", "o", "n", "e", "x", "i", "s", "t", "e", "n", "t", "_", "p", "e", "r", "s", "o", "n", "a", "l", "i", "t", "y">>

NoRegCall == [op |-> "none", name |-> <<>>, personality |-> "", overwrite |-> FALSE,
              tag |-> "return", error |-> "", value |-> "", text |-> <<>>,
              listing |-> <<>>]

----------------------------------------------------------------------------
(* personalities.py: the built-in personalities, called with a loss that is   *)
(* not None. A message is its leading words with the arguments it formats.     *)

\* personalities.py wholesome
wholesome(loss, prev_loss, step) ==
    IF prev_loss = None THEN Return(Some(Msg("Let's get started! Initial loss:", loss, prev_loss, step)))
    ELSE IF loss[1] < prev_loss[1] THEN Return(Some(Msg("Nice! Loss improved from", loss, prev_loss, step)))
    ELSE IF loss[1] > prev_loss[1] THEN Return(Some(Msg("It's okay! Loss went from", loss, prev_loss, step)))
    ELSE Return(None)

\* personalities.py sassy
sassy(loss, prev_loss, step) ==
    IF prev_loss = None THEN Return(Some(Msg("Fine, let's see what you've got.", loss, prev_loss, step)))
    ELSE IF loss[1] > prev_loss[1] THEN Return(Some(Msg("Bold move: loss got worse", loss, prev_loss, step)))
    ELSE IF loss[1] < prev_loss[1] THEN Return(Some(Msg("About time:", loss, prev_loss, step)))
    ELSE Return(Some(Msg("Exactly the same? Interesting choice.", loss, prev_loss, step)))

\* (variant: the quiet personality speaks at every step)
QuietPersonality_EveryStep(n, loss, prev_loss, step) ==
    Return(Some(Msg("Step : current loss", loss, prev_loss, step)))

\* (variant: the quiet personality counts its own calls and speaks at every n-th)
QuietPersonality_CountsCalls(n, loss, prev_loss, step) ==
    IF (quiet_calls + 1) % n /= 0 THEN Return(None)
    ELSE Return(Some(Msg("Step : current loss", loss, prev_loss, step)))

\* personalities.py QuietPersonality(every_n_steps=n).__call__
QuietPersonality(n, loss, prev_loss, step) ==
    IF step % n /= 0 THEN Return(None)
    ELSE Return(Some(Msg("Step : current loss", loss, prev_loss, step)))

\* personalities.py nervous
nervous(loss, prev_loss, step) ==
    IF prev_loss = None THEN Return(Some(Msg("Oh no, here we go... Initial loss is", loss, prev_loss, step)))
    ELSE IF loss[1] < prev_loss[1] THEN Return(Some(Msg("Phew! Loss dropped from", loss, prev_loss, step)))
    ELSE IF loss[1] > prev_loss[1] THEN Return(Some(Msg("I KNEW IT! Loss went up from", loss, prev_loss, step)))
    ELSE Return(Some(Msg("Loss is exactly the same...", loss, prev_loss, step)))

\* personalities.py chaotic: r is the index random.choice draws from the three
\* messages of the case
chaos_starts == <<"CHAOS BEGINS! Loss:", "*appears from nowhere* Oh, we're training? Loss is",
                  "Wild card activated! Starting loss:">>
good_chaos == <<"YEET!", "Loss improved!", "TO THE MOON! Well, to lower loss at least:">>
bad_chaos == <<"BOOM! Loss exploded:", "Wheeeee! Loss went UP to", "This is fine. Loss:">>
RandomChoices == 1 .. Len(chaos_starts)
\* what random.choice can draw in a call of f: only chaotic calls it
Draws(f) == IF f = "chaotic" THEN RandomChoices ELSE {CHOOSE r \in RandomChoices : TRUE}
chaotic(loss, prev_loss, step, r) ==
    IF prev_loss = None THEN Return(Some(Msg(chaos_starts[r], loss, prev_loss, step)))
    ELSE IF loss[1] < prev_loss[1] THEN Return(Some(Msg(good_chaos[r], loss, prev_loss, step)))
    ELSE IF loss[1] > prev_loss[1] THEN Return(Some(Msg(bad_chaos[r], loss, prev_loss, step)))
    ELSE Return(Some(Msg("Time is a flat circle. Loss:", loss, prev_loss, step)))

\* personalities.py arrogant
arrogant(loss, prev_loss, step) ==
    IF prev_loss = None THEN Return(Some(Msg("*adjusts monocle* Initial loss of", loss, prev_loss, step)))
    ELSE IF loss[1] < prev_loss[1] THEN Return(Some(Msg("Obviously the loss improved", loss, prev_loss, step)))
    ELSE IF loss[1] > prev_loss[1] THEN Return(Some(Msg("Loss increased to", loss, prev_loss, step)))
    ELSE Return(Some(Msg("No change at", loss, prev_loss, step)))

\* personalities.py tired
tired(loss, prev_loss, step) ==
    IF prev_loss = None THEN Return(Some(Msg("*yawn* Oh, we're starting? Loss is", loss, prev_loss, step)))
    ELSE IF loss[1] < prev_loss[1] THEN Return(Some(Msg("Cool, loss went down...", loss, prev_loss, step)))
    ELSE IF loss[1] > prev_loss[1] THEN Return(Some(Msg("Ugh, loss went up to", loss, prev_loss, step)))
    ELSE Return(Some(Msg("Loss is still", loss, prev_loss, step)))

\* personalities.py hype
hype(loss, prev_loss, step) ==
    IF prev_loss = None THEN Return(Some(Msg("LET'S GOOOOOO!!! Initial loss:", loss, prev_loss, step)))
    ELSE IF loss[1] < prev_loss[1] THEN Return(Some(Msg("YOOOOO!!! LOSS DROPPED FROM", loss, prev_loss, step)))
    ELSE IF loss[1] > prev_loss[1] THEN Return(Some(Msg("OKAY SO LOSS WENT UP TO", loss, prev_loss, step)))
    ELSE Return(Some(Msg("LOSS HOLDING STEADY AT", loss, prev_loss, step)))

\* personalities.py academic
academic(loss, prev_loss, step) ==
    IF prev_loss = None THEN Return(Some(Msg("Initial observation: loss function yields", loss, prev_loss, step)))
    ELSE IF loss[1] < prev_loss[1] THEN Return(Some(Msg("Statistically significant improvement observed.", loss, prev_loss, step)))
    ELSE IF loss[1] > prev_loss[1] THEN Return(Some(Msg("Note: Loss increased from", loss, prev_loss, step)))
    ELSE Return(Some(Msg("No statistically significant change detected.", loss, prev_loss, step)))

\* personalities.py pirate
pirate(loss, prev_loss, step) ==
    IF prev_loss = None THEN Return(Some(Msg("Ahoy! We be settin' sail! Initial loss be", loss, prev_loss, step)))
    ELSE IF loss[1] < prev_loss[1] THEN Return(Some(Msg("Shiver me timbers! Loss dropped from", loss, prev_loss, step)))
    ELSE IF loss[1] > prev_loss[1] THEN Return(Some(Msg("Blimey! Loss went up to", loss, prev_loss, step)))
    ELSE Return(Some(Msg("The seas be calm, loss steady at", loss, prev_loss, step)))

\* (variant: zen keeps what it was called with last and is silent on a repeat)
zen_SilentOnRepeat(loss, prev_loss, step) ==
    IF /\ strat_last.fn = "zen" /\ strat_last.loss = loss
       /\ strat_last.prev = prev_loss /\ strat_last.step = step
       /\ strat_last.result /= Return(None)
    THEN Return(None)
    ELSE Return(Some(Msg("Stillness.", loss, prev_loss, step)))

\* personalities.py zen
zen(loss, prev_loss, step) ==
    IF prev_loss = None THEN Return(Some(Msg("The journey of a thousand gradients begins with a single step.", loss, prev_loss, step)))
    ELSE IF loss[1] < prev_loss[1] THEN Return(Some(Msg("Like water flowing downhill, the loss descends:", loss, prev_loss, step)))
    ELSE IF loss[1] > prev_loss[1] THEN Return(Some(Msg("The wind sometimes blows against us. Loss:", loss, prev_loss, step)))
    ELSE Return(Some(Msg("Stillness. Loss remains at", loss, prev_loss, step)))

\* calling the value the registry holds under a built-in name
CallBuiltin(f, loss, prev_loss, step, r) ==
    CASE f = "wholesome" -> wholesome(loss, prev_loss, step)
      [] f = "sassy"     -> sassy(loss, prev_loss, step)
      [] f = "quiet"     -> QuietPersonality(every_n_steps, loss, prev_loss, step)
      [] f = "nervous"   -> nervous(loss, prev_loss, step)
      [] f = "chaotic"   -> chaotic(loss, prev_loss, step, r)
      [] f = "arrogant"  -> arrogant(loss, prev_loss, step)
      [] f = "tired"     -> tired(loss, prev_loss, step)
      [] f = "hype"      -> hype(loss, prev_loss, step)
      [] f = "academic"  -> academic(loss, prev_loss, step)
      [] f = "pirate"    -> pirate(loss, prev_loss, step)
      [] f = "zen"       -> zen(loss, prev_loss, step)

\* the step arguments of direct calls: the first steps, and the steps around
\* the quiet personality's interval and its second multiple
StratSteps == (1 .. MaxStratStep)
              \cup {every_n_steps - 1, every_n_steps, every_n_steps + 1, every_n_steps + every_n_steps}

NoStratCall == [op |-> "none", fn |-> "", loss |-> None, prev |-> None, step |-> 0,
                result |-> Return(None)]

----------------------------------------------------------------------------
(* colors.py: a str is the sequence of its characters; "ESC" is the one       *)
(* character \033.                                                            *)

RESET == <<"ESC", "[", "0", "m">>
BOLD == <<"ESC", "[", "1", "m">>
GREEN == <<"ESC", "[", "3", "2", "m">>

\* "".join(codes)
RECURSIVE JoinCodes(_)
JoinCodes(codes) == IF codes = <<>> THEN <<>> ELSE Head(codes) \o JoinCodes(Tail(codes))

\* colorize(text, *codes)
colorize(text, codes) ==
    IF codes = <<>> THEN text
    ELSE JoinCodes(codes) \o text \o RESET

\* the character class [0-9;] of the pattern
AnsiParams == {"0", "1", "2", "3", "4", "5", "6", "7", "8", "9", ";"}

\* the end of the match of \033\[[0-9;]*m that starts at i, or 0 when none starts
\* there: [0-9;]* takes every parameter character, then an "m" must follow
RECURSIVE ParamsEnd(_, _)
ParamsEnd(text, j) ==
    IF j <= Len(text) /\ text[j] \in AnsiParams THEN ParamsEnd(text, j + 1) ELSE j
MatchEnd(text, i) ==
    IF i + 1 <= Len(text) /\ text[i] = "ESC" /\ text[i + 1] = "["
    THEN LET j == ParamsEnd(text, i + 2)
         IN IF j <= Len(text) /\ text[j] = "m" THEN j ELSE 0
    ELSE 0

\* (variant: only the first match is removed, as with count=1)
RECURSIVE SubFrom_FirstOnly(_, _)
SubFrom_FirstOnly(text, i) ==
    IF i > Len(text) THEN <<>>
    ELSE IF MatchEnd(text, i) /= 0 THEN SubSeq(text, MatchEnd(text, i) + 1, Len(text))
    ELSE <<text[i]>> \o SubFrom_FirstOnly(text, i + 1)

\* ansi_escape.sub("", text) from position i on: the matches, leftmost first and
\* not overlapping, are left out
RECURSIVE SubFrom(_, _)
SubFrom(text, i) ==
    IF i > Len(text) THEN <<>>
    ELSE IF MatchEnd(text, i) /= 0 THEN SubFrom(text, MatchEnd(text, i) + 1)
    ELSE <<text[i]>> \o SubFrom(text, i + 1)

\* strip_colors(text)
strip_colors(text) == SubFrom(text, 1)

\* the texts and colour codes callers pass
TextChars == {"ESC", "[", "3", ";", "m", "a"}
Texts == UNION {[1 .. n -> TextChars] : n \in 0 .. MaxTextLen}
ColorCodes == {RESET, BOLD, GREEN}
CodeTuples == UNION {[1 .. n -> ColorCodes] : n \in 0 .. MaxCodes}

NoColorCall == [op |-> "none", text |-> <<>>, codes |-> <<>>, colored |-> <<>>,
                stripped |-> <<>>]

----------------------------------------------------------------------------
(* EmotionalOptimizer.step, line by line *)

\* def step(self, loss=None, *args, **kwargs): a positional argument and
\* loss=... together are "multiple values for argument 'loss'" (TypeError)
BindFails(pos, kw) == Len(pos) > 0 /\ "loss" \in DOMAIN kw

\* the value bound to the parameter loss
BoundLoss(pos, kw) ==
    IF Len(pos) > 0 THEN Some(pos[1])
    ELSE IF "loss" \in DOMAIN kw THEN Some(kw["loss"])
    ELSE None

\* (variant: the positional argument bound to loss is forwarded as well)
StarArgs_KeepsLoss(pos) == pos

\* *args: the positional arguments after the one bound to loss
StarArgs(pos) == IF Len(pos) > 0 THEN Tail(pos) ELSE <<>>

\* **kwargs: the keyword arguments other than loss
StarKwargs(kw) == [k \in (DOMAIN kw) \ {"loss"} |-> kw[k]]

\* (variant: the increment is lost)
NextStepCount_Lost(step) == step

\* self._step += 1
NextStepCount(step) == step + 1

\* (variant: the enabled flag is not consulted)
ShouldCall_IgnoresEnabled(en, loss) == loss /= None

\* if self.enabled and loss is not None:
ShouldCall(en, loss) == en /\ loss /= None

\* (variant: no except clause, the personality's exception escapes)
TryPersonality_NoCatch(outcome) == outcome

\* try: message = self.personality(...)  except Exception: message = None
TryPersonality(outcome) == IF outcome.tag = "raise" THEN Return(None) ELSE outcome

\* (variant: called before the increment, with the old counter)
CallArgs_BeforeIncrement(loss, prev_loss, step) ==
    [loss |-> loss, prev |-> prev_loss, step |-> step - 1]

\* self.personality(loss, self._prev_loss, self._step), after self._step += 1
CallArgs(loss, prev_loss, step) == [loss |-> loss, prev |-> prev_loss, step |-> step]

\* (variant: `if message is not None`, an empty string is printed)
Truthy_NotNone(message) == message /= None

\* if message:   (None and "" are falsy)
Truthy(message) == message /= None /\ message[1].text /= ""

\* (variant: the previous loss is never replaced)
NextPrevLoss_Kept(loss, prev_loss) == prev_loss

\* if loss is not None: self._prev_loss = loss
NextPrevLoss(loss, prev_loss) == IF loss /= None THEN loss ELSE prev_loss

\* the dataclass fields are optimizer, personality, enabled, print_fn: the
\* generated __init__ raises TypeError for any other keyword (message_every)
UnexpectedKeyword(me) == me /= None

\* zero_grad(): no positional argument or one, and what the wrapped zero_grad() returns
ZeroPosArgs == {<<>>, <<MaxLoss>>}
ZeroResults == {"None", "zeroed"}

\* (variant: an exception of the wrapped step() is swallowed)
OptimizerRaised_Swallowed(opt) == FALSE

\* result = self.optimizer.step(...): the call raises and step() is left there
OptimizerRaised(opt) == opt.tag = "raise"

\* (variant: an exception of print_fn is swallowed)
SinkRaises_Caught(emit, pf) == FALSE

\* self.print_fn(message) with a print_fn that raises: nothing catches it
SinkRaises(emit, pf) == emit /\ pf = "broken"

NoCall == [op |-> "none", pos |-> <<>>, kw |-> <<>>, loss |-> None,
           opt |-> Return("None"), outcome |-> "returned", error |-> "",
           value |-> None, called |-> FALSE, result |-> Return(None),
           emitted |-> FALSE, set_to |-> ""]

----------------------------------------------------------------------------

Init ==
    /\ ctor = [called |-> FALSE, personality |-> "default", enabled |-> TRUE,
               print_fn |-> "capture", message_every |-> None, raised |-> ""]
    /\ constructed = FALSE
    /\ personality = "default"
    /\ enabled = TRUE
    /\ print_fn = "capture"
    /\ _step = 0
    /\ _prev_loss = None
    /\ opt_step_calls = 0
    /\ opt_zero_calls = 0
    /\ opt_last = [args |-> <<>>, kwargs |-> <<>>]
    /\ losses = <<>>
    /\ invocations = <<>>
    /\ printed = 0
    /\ messages = <<>>
    /\ calls = 0
    /\ step_returns = 0
    /\ step_raises = 0
    /\ last = NoCall
    /\ registry = _PERSONALITY_REGISTRY
    /\ reg_calls = 0
    /\ reg_last = NoRegCall
    /\ strat_last = NoStratCall
    /\ quiet_calls = 0
    /\ strat_repeat = "no"
    /\ color_last = NoColorCall

\* EmotionalOptimizer(optimizer, personality=p, enabled=e, print_fn=pf[, message_every=me]):
\* the dataclass has the fields optimizer, personality, enabled, print_fn; any
\* other keyword is a TypeError of the generated __init__. __post_init__ sets
\* _step = 0 and _prev_loss = None.
Construct(p, e, pf, me) ==
    /\ ~ctor.called
    /\ ctor' = [called |-> TRUE, personality |-> p, enabled |-> e, print_fn |-> pf,
                message_every |-> me,
                raised |-> IF UnexpectedKeyword(me) THEN "TypeError" ELSE ""]
    /\ IF UnexpectedKeyword(me)
       THEN UNCHANGED <<constructed, personality, enabled, print_fn>>
       ELSE /\ constructed' = TRUE
            /\ personality' = p
            /\ enabled' = e
            /\ print_fn' = pf
    /\ _step' = 0
    /\ _prev_loss' = None
    /\ UNCHANGED <<opt_step_calls, opt_zero_calls, opt_last, losses, invocations,
                   printed, messages, calls, step_returns, step_raises, last>>
    /\ UNCHANGED <<regvars, stratvars, color_last>>

\* emo_opt.step(*pos, **kw); opt is what the wrapped optimizer's step() does
Step(limit, pos, kw, opt) ==
    /\ constructed
    /\ calls < limit
    /\ calls' = calls + 1
    /\ UNCHANGED <<ctor, constructed, personality, enabled, print_fn, opt_zero_calls>>
    /\ UNCHANGED <<regvars, stratvars, color_last>>
    /\ IF BindFails(pos, kw)
       THEN /\ last' = [NoCall EXCEPT !.op = "step", !.pos = pos, !.kw = kw, !.opt = opt,
                                      !.outcome = "raised", !.error = "TypeError"]
            /\ step_raises' = step_raises + 1
            /\ UNCHANGED <<_step, _prev_loss, opt_step_calls, opt_last, losses,
                           invocations, printed, messages, step_returns>>
       ELSE
       LET loss == BoundLoss(pos, kw)
           call == [NoCall EXCEPT !.op = "step", !.pos = pos, !.kw = kw, !.opt = opt,
                                  !.loss = loss]
       IN
       \* result = self.optimizer.step(*args, **kwargs)
       /\ opt_step_calls' = opt_step_calls + 1
       /\ opt_last' = [args |-> StarArgs(pos), kwargs |-> StarKwargs(kw)]
       /\ IF OptimizerRaised(opt)
          THEN /\ last' = [call EXCEPT !.outcome = "raised", !.error = opt.val]
               /\ step_raises' = step_raises + 1
               /\ UNCHANGED <<_step, _prev_loss, losses, invocations, printed, messages,
                              step_returns>>
          ELSE
          LET step1 == NextStepCount(_step)
              doCall == ShouldCall(enabled, loss)
              args == CallArgs(loss, _prev_loss, step1)
              result == IF doCall
                        THEN CallPersonality(personality, args.loss, args.prev, args.step)
                        ELSE Return(None)
              message == IF doCall THEN TryPersonality(result) ELSE Return(None)
              escaped == message.tag = "raise"
              emit == ~escaped /\ Truthy(message.val)
              sinkRaises == SinkRaises(emit, print_fn)
              completed == ~escaped /\ ~sinkRaises
          IN
          /\ _step' = step1
          /\ losses' = Append(losses, loss)
          /\ invocations' = IF doCall
                            THEN Append(invocations, args)
                            ELSE invocations
          /\ printed' = IF emit THEN printed + 1 ELSE printed
          /\ messages' = IF emit /\ ~sinkRaises THEN Append(messages, message.val[1])
                         ELSE messages
          /\ _prev_loss' = IF completed THEN NextPrevLoss(loss, _prev_loss)
                           ELSE _prev_loss
          /\ step_returns' = IF completed THEN step_returns + 1 ELSE step_returns
          /\ step_raises' = IF completed THEN step_raises ELSE step_raises + 1
          /\ last' = [call EXCEPT !.called = doCall,
                                  !.result = result,
                                  !.emitted = emit,
                                  !.outcome = IF completed THEN "returned" ELSE "raised",
                                  !.error = IF escaped THEN message.val
                                            ELSE IF sinkRaises THEN "SinkError" ELSE "",
                                  !.value = IF completed THEN Some(opt.val) ELSE None]

\* (variant: zero_grad forwards the keyword arguments only)
ForwardArgs_KeywordsOnly(pos, kw) == [args |-> <<>>, kwargs |-> kw]

\* self.optimizer.zero_grad(*args, **kwargs): what the wrapped optimizer receives
ForwardArgs(pos, kw) == [args |-> pos, kwargs |-> kw]

\* emo_opt.zero_grad(*pos, **kw): return self.optimizer.zero_grad(*args, **kwargs);
\* res is what the wrapped optimizer's zero_grad() returns
ZeroGrad(pos, kw, res) ==
    /\ constructed
    /\ calls < MaxCalls
    /\ calls' = calls + 1
    /\ opt_zero_calls' = opt_zero_calls + 1
    /\ opt_last' = ForwardArgs(pos, kw)
    /\ last' = [NoCall EXCEPT !.op = "zero_grad", !.pos = pos, !.kw = kw,
                              !.opt = Return(res), !.value = Some(res)]
    /\ UNCHANGED <<ctor, constructed, personality, enabled, print_fn, _step, _prev_loss,
                   opt_step_calls, losses, invocations, printed, messages,
                   step_returns, step_raises>>
    /\ UNCHANGED <<regvars, stratvars, color_last>>

\* (variant: the assignment does not reach the field)
AssignField_Ignored(old, new) == old

\* obj.field = new on the dataclass (it is not frozen)
AssignField(old, new) == new

\* emo_opt.personality = p, between two calls
SetPersonality(p) ==
    /\ constructed
    /\ calls < MaxCalls
    /\ calls' = calls + 1
    /\ personality' = AssignField(personality, p)
    /\ last' = [NoCall EXCEPT !.op = "set_personality", !.set_to = p]
    /\ UNCHANGED <<ctor, constructed, enabled, print_fn, _step, _prev_loss,
                   opt_step_calls, opt_zero_calls, opt_last, losses, invocations,
                   printed, messages, step_returns, step_raises>>
    /\ UNCHANGED <<regvars, stratvars, color_last>>

\* register_personality(name, p, overwrite=ow)
Register(name, p, ow) ==
    /\ reg_calls < MaxRegCalls
    /\ reg_calls' = reg_calls + 1
    /\ LET out == register_personality(registry, name, p, ow)
       IN /\ registry' = out.reg
          /\ reg_last' = [NoRegCall EXCEPT !.op = "register", !.name = name,
                                           !.personality = p, !.overwrite = ow,
                                           !.tag = out.tag, !.error = out.error]
    /\ UNCHANGED <<optvars, stratvars, color_last>>

\* get_personality(name)
Get(name) ==
    /\ reg_calls < MaxRegCalls
    /\ reg_calls' = reg_calls + 1
    /\ LET out == get_personality(registry, name)
       IN reg_last' = [NoRegCall EXCEPT !.op = "get", !.name = name, !.tag = out.tag,
                                       !.error = out.error, !.value = out.value,
                                       !.text = out.text]
    /\ UNCHANGED <<registry, optvars, stratvars, color_last>>

\* list_personalities()
List ==
    /\ reg_calls < MaxRegCalls
    /\ reg_calls' = reg_calls + 1
    /\ reg_last' = [NoRegCall EXCEPT !.op = "list", !.listing = list_personalities(registry)]
    /\ UNCHANGED <<registry, optvars, stratvars, color_last>>

\* f(loss, prev_loss, step) for a built-in personality f; r is what
\* random.choice draws when f is chaotic
Invoke(f, loss, prev_loss, step, r) ==
    /\ f = "quiet" => quiet_calls < MaxQuietCalls
    /\ quiet_calls' = IF f = "quiet" THEN quiet_calls + 1 ELSE quiet_calls
    /\ strat_last' = [NoStratCall EXCEPT !.op = "call", !.fn = f, !.loss = loss,
                                         !.prev = prev_loss, !.step = step,
                                         !.result = CallBuiltin(f, loss, prev_loss, step, r)]
    /\ strat_repeat' = IF [strat_last' EXCEPT !.result = strat_last.result] /= strat_last
                       THEN "no"
                       ELSE IF strat_last'.result = strat_last.result THEN "same"
                       ELSE "differs"
    /\ UNCHANGED <<optvars, regvars, color_last>>

\* colored = colorize(text, *codes), then strip_colors(colored); the functions
\* keep no state, a behaviour makes one such call
Colorize(text, codes) ==
    /\ color_last.op = "none"
    /\ color_last' = [op |-> "colorize", text |-> text, codes |-> codes,
                      colored |-> colorize(text, codes),
                      stripped |-> strip_colors(colorize(text, codes))]
    /\ UNCHANGED <<optvars, regvars, stratvars>>

DoConstruct ==
    \E p \in Personalities, e \in BOOLEAN, pf \in PrintFns,
       me \in {None} \cup {Some(c) : c \in Cadences} :
        Construct(p, e, pf, me)

\* the training-loop form of the call: step() or step(loss=v)
DoStep ==
    \E kw \in KwOver({"loss"}), opt \in OptOutcomes : Step(MaxCalls, <<>>, kw, opt)

\* every form of the call: positional arguments and extra keyword arguments
DoStepArgs ==
    \E pos \in PosArgs, kw \in KwOver({"loss", "closure"}), opt \in OptOutcomes :
        Step(MaxArgCalls, pos, kw, opt)

DoZeroGrad ==
    \E pos \in ZeroPosArgs, kw \in KwOver({"set_to_none"}), res \in ZeroResults :
        ZeroGrad(pos, kw, res)

DoSetPersonality == \E p \in Callables : SetPersonality(p)

Next == DoConstruct \/ DoStep \/ DoZeroGrad \/ DoSetPersonality

Spec == Init /\ [][Next]_vars

DoRegister ==
    \E name \in RegNames, p \in CustomPersonalities, ow \in BOOLEAN : Register(name, p, ow)

DoGet == \E name \in RegNames : Get(name)

NextRegistry == DoRegister \/ DoGet \/ List

SpecRegistry == Init /\ [][NextRegistry]_vars

DoInvoke ==
    \E i \in 1 .. Len(_PERSONALITY_REGISTRY), v \in LossVals,
       prev \in {None} \cup {Some(w) : w \in LossVals},
       step \in StratSteps :
        \E r \in Draws(_PERSONALITY_REGISTRY[i].value) :
            Invoke(_PERSONALITY_REGISTRY[i].value, Some(v), prev, step, r)

NextStrategies == DoInvoke

SpecStrategies == Init /\ [][NextStrategies]_vars

DoColorize ==
    /\ color_last.op = "none"
    /\ \E text \in Texts, codes \in CodeTuples : Colorize(text, codes)

NextColors == DoColorize

SpecColors == Init /\ [][NextColors]_vars

NextArgs == DoConstruct \/ DoStepArgs \/ DoZeroGrad

SpecArgs == Init /\ [][NextArgs]_vars

----------------------------------------------------------------------------
(* Vocabulary of the properties *)

\* this transition is a step() call / a zero_grad() call
StepTaken == calls' = calls + 1 /\ last'.op = "step"
ZeroGradTaken == calls' = calls + 1 /\ last'.op = "zero_grad"
SetPersonalityTaken == calls' = calls + 1 /\ last'.op = "set_personality"

\* the cadence the caller configured: message_every, 1 when it is not given
Cadence == IF ctor.message_every = None THEN 1 ELSE ctor.message_every[1]

\* every step() call so far returned, and each supplied a loss
AllStepsReturned == step_raises = 0
AllStepsHadLoss == \A i \in 1 .. Len(losses) : losses[i] /= None

\* the steps whose losses make up the window that the k-th personality call closes:
\* those after the previous personality call, up to this one, that supplied a loss
WindowOf(k) ==
    {i \in 1 .. Len(losses) :
        /\ i > (IF k = 1 THEN 0 ELSE invocations[k - 1].step)
        /\ i <= invocations[k].step
        /\ losses[i] /= None}

\* the steps that supplied a loss since the last personality call
OpenWindow ==
    {i \in 1 .. Len(losses) :
        /\ i > (IF invocations = <<>> THEN 0 ELSE invocations[Len(invocations)].step)
        /\ losses[i] /= None}

RECURSIVE SumOf(_)
SumOf(S) == IF S = {} THEN 0
            ELSE LET i == CHOOSE j \in S : TRUE IN losses[i][1] + SumOf(S \ {i})

----------------------------------------------------------------------------
(* C1: with a personality that raises on every call, every step() call whose  *)
(* arguments bind and whose wrapped step() returns still enters the wrapped   *)
(* optimizer's step() once, returns its result unchanged and raises nothing.  *)
C1_FaultyPersonalityNeverBreaksStep ==
    [][(/\ StepTaken
        /\ personality = "faulty"
        /\ ~BindFails(last'.pos, last'.kw)
        /\ last'.opt.tag = "return")
       => (/\ opt_step_calls' = opt_step_calls + 1
           /\ last'.outcome = "returned"
           /\ last'.error = ""
           /\ last'.value = Some(last'.opt.val))]_vars

\* a step with a loss on an enabled optimizer called the raising personality and returned
C1_Witness ==
    /\ constructed /\ enabled /\ personality = "faulty"
    /\ last.op = "step" /\ last.loss /= None /\ last.called
    /\ invocations /= <<>>
    /\ last.outcome = "returned"

(* C2: for every cadence C > 0, on an enabled optimizer whose personality     *)
(* always returns a non-empty string, N step() calls that each supply a loss  *)
(* send exactly N div C messages to print_fn, the i-th at step i*C.           *)
C2_MessagesEveryCadence ==
    (/\ ctor.called /\ Cadence > 0
     /\ ctor.enabled /\ ctor.personality = "echo" /\ ctor.print_fn = "capture")
    => /\ constructed
       /\ (AllStepsReturned /\ AllStepsHadLoss)
            => /\ Len(messages) = Len(losses) \div Cadence
               /\ \A i \in 1 .. Len(messages) : messages[i].step = i * Cadence

(* C3: whenever the personality is called at a window close (cadence C > 0),  *)
(* its loss argument is the arithmetic mean of exactly the losses supplied    *)
(* since the previous window close, and the step is a multiple of C.          *)
C3_WindowAverage ==
    (ctor.called /\ Cadence > 0)
    => /\ constructed
       /\ \A k \in 1 .. Len(invocations) :
            /\ invocations[k].step % Cadence = 0
            /\ invocations[k].loss /= None
            /\ invocations[k].loss[1] * Cardinality(WindowOf(k)) = SumOf(WindowOf(k))

(* C4: the prev_loss argument is None at the first window close and at every  *)
(* later one it is the average passed as loss at the preceding window close.  *)
C4_PreviousIsPrecedingAverage ==
    (ctor.called /\ Cadence > 0)
    => /\ constructed
       /\ \A k \in 1 .. Len(invocations) :
            invocations[k].prev = IF k = 1 THEN None ELSE invocations[k - 1].loss

(* C5: an EmotionalOptimizer can be constructed with message_every = 0, and   *)
(* then no step() call calls the personality or print_fn.                     *)
C5_CadenceZeroDisables ==
    (ctor.called /\ ctor.message_every = Some(0))
    => /\ constructed
       /\ invocations = <<>>
       /\ printed = 0
       /\ messages = <<>>

(* C6: when enabled is false no step() call calls the personality or          *)
(* print_fn, whether or not a loss is supplied.                               *)
C6_DisabledNeverCalls ==
    [][(StepTaken /\ ~enabled)
       => (/\ ~last'.called
           /\ ~last'.emitted
           /\ invocations' = invocations
           /\ printed' = printed
           /\ messages' = messages)]_vars

\* a disabled optimizer has completed a step that supplied a loss
C6_Witness ==
    /\ constructed /\ ~enabled
    /\ last.op = "step" /\ last.loss /= None /\ last.outcome = "returned"
    /\ _step > 0

(* C7: the step counter is 0 at construction; every step() call that returns  *)
(* increases it by exactly 1 (with or without loss, enabled or not, whatever  *)
(* the personality does), so after K returning calls it is K; zero_grad()     *)
(* never changes it.                                                          *)
C7_StepCounter ==
    /\ [](constructed /\ AllStepsReturned => _step = step_returns)
    /\ [][/\ (~constructed /\ constructed' => _step' = 0)
          /\ (StepTaken /\ last'.outcome = "returned" => _step' = _step + 1)
          /\ (ZeroGradTaken => _step' = _step)]_vars

\* several steps returned, one without a loss, and zero_grad() was called
C7_Witness ==
    /\ constructed /\ AllStepsReturned
    /\ step_returns >= 2
    /\ \E i \in 1 .. Len(losses) : losses[i] = None
    /\ \E i \in 1 .. Len(losses) : losses[i] /= None
    /\ opt_zero_calls > 0

(* C8 as stated: every step() call enters the wrapped step() exactly once     *)
(* with all the caller's positional arguments and all keyword arguments other *)
(* than loss, and returns the wrapped result unchanged.                       *)
C8_ForwardsAllPositional ==
    [][(StepTaken /\ ~BindFails(last'.pos, last'.kw))
       => (/\ opt_step_calls' = opt_step_calls + 1
           /\ opt_last'.args = last'.pos
           /\ opt_last'.kwargs = [k \in (DOMAIN last'.kw) \ {"loss"} |-> last'.kw[k]]
           /\ (last'.outcome = "returned" => last'.value = Some(last'.opt.val)))]_vars

(* C8 amended: every step() call whose arguments bind enters the wrapped      *)
(* step() exactly once with the positional arguments after the first (the     *)
(* first positional argument is bound to loss and not forwarded) and all      *)
(* keyword arguments other than loss; when the call returns it returns the    *)
(* wrapped result unchanged, and a call whose arguments do not bind never     *)
(* reaches the wrapped optimizer.                                             *)
C8_ForwardsAllButLoss ==
    [][/\ (StepTaken /\ ~BindFails(last'.pos, last'.kw))
          => (/\ opt_step_calls' = opt_step_calls + 1
              /\ opt_last'.args = SubSeq(last'.pos, 2, Len(last'.pos))
              /\ last'.loss = IF last'.pos /= <<>> THEN Some(last'.pos[1])
                              ELSE IF "loss" \in DOMAIN last'.kw THEN Some(last'.kw["loss"])
                              ELSE None
              /\ opt_last'.kwargs = [k \in (DOMAIN last'.kw) \ {"loss"} |-> last'.kw[k]]
              /\ (last'.outcome = "returned" => last'.value = Some(last'.opt.val))
              /\ (last'.opt.tag = "return" /\ ~last'.emitted => last'.outcome = "returned"))
       /\ (StepTaken /\ BindFails(last'.pos, last'.kw))
          => (opt_step_calls' = opt_step_calls /\ opt_last' = opt_last
              /\ last'.outcome = "raised")]_vars

\* a call step(v, w, closure=c) returned: v became the loss, w and closure were forwarded
C8_Witness ==
    /\ last.op = "step" /\ last.outcome = "returned"
    /\ Len(last.pos) = 2 /\ "closure" \in DOMAIN last.kw
    /\ last.loss = Some(last.pos[1])
    /\ opt_last.args = <<last.pos[2]>>
    /\ DOMAIN opt_last.kwargs = {"closure"}

(* C9: previous_loss is None until the first window closes and changes only   *)
(* in a step() call that closes a window holding a loss: enabled, cadence >   *)
(* 0, step counter a multiple of the cadence. Every other call leaves it      *)
(* unchanged.                                                                 *)
C9_PreviousChangesOnlyAtWindowClose ==
    [][(_prev_loss' /= _prev_loss)
       => (/\ StepTaken
           /\ enabled
           /\ Cadence > 0
           /\ _step' % Cadence = 0
           /\ last'.called)]_vars

(* C10: right after a step() call that closes a window and emits its message  *)
(* the running sum and count of losses are zero, so the average of a later    *)
(* window holds no loss of a closed one.                                      *)
C10_WindowResetAfterEmit ==
    (ctor.called /\ Cadence > 0)
    => /\ constructed
       /\ (last.op = "step" /\ last.emitted /\ last.outcome = "returned")
            => (Cardinality(OpenWindow) = 0 /\ SumOf(OpenWindow) = 0)
       /\ \A k \in 2 .. Len(invocations) :
            \A i \in WindowOf(k) : i > invocations[k - 1].step

(* C11: when the personality is called and returns a non-empty string,        *)
(* print_fn is called exactly once in that step() call, with exactly that     *)
(* string; when it returns None or an empty string, raises, or is not         *)
(* called, print_fn is not called in that step() call.                        *)
C11_SinkGetsExactlyTheMessage ==
    [][StepTaken
       => LET r == last'.result
              nonEmpty == /\ last'.called
                          /\ r.tag = "return"
                          /\ r.val /= None
                          /\ r.val[1].text /= ""
          IN IF nonEmpty
             THEN /\ printed' = printed + 1
                  /\ print_fn = "capture" => messages' = Append(messages, r.val[1])
             ELSE /\ printed' = printed
                  /\ messages' = messages]_vars

\* the personality returned a non-empty message and the capturing sink holds it
C11_Witness ==
    /\ constructed /\ print_fn = "capture"
    /\ last.op = "step" /\ last.called /\ last.emitted
    /\ last.result.val /= None
    /\ messages = <<last.result.val[1]>>
    /\ printed = 1

(* C12: constructing an EmotionalOptimizer with a registered name, in any   *)
(* letter case, stores the callable the registry maps the name to, and the    *)
(* enabled step() calls with a loss that follow send that personality's       *)
(* messages to print_fn.                                                      *)
C12_NameResolvedAtConstruction ==
    (/\ ctor.called
     /\ ctor.message_every = None
     /\ ctor.personality \in StrArgs
     /\ HasKey(registry, lower(StrValue(ctor.personality))))
    => /\ constructed
       /\ personality = Lookup(registry, lower(StrValue(ctor.personality)))
       /\ personality \notin StrArgs
       /\ (last.op = "step" /\ last.called) => last.result.tag = "return"

(* C13: constructing an EmotionalOptimizer with a name that is not            *)
(* registered raises KeyError at construction: no optimizer object exists     *)
(* and no step is taken with the unresolved name.                             *)
C13_UnknownNameFailsAtConstruction ==
    (/\ ctor.called
     /\ ctor.message_every = None
     /\ ctor.personality \in StrArgs
     /\ ~HasKey(registry, lower(StrValue(ctor.personality))))
    => /\ ~constructed
       /\ ctor.raised = "KeyError"
       /\ calls = 0

(* C19: whenever the personality is called in a step() call, the wrapped     *)
(* optimizer's step() of that call has been entered and has returned, and the *)
(* step argument is the step counter after that call's increment: 1 in the    *)
(* first counted call, never 0.                                               *)
C19_StepArgumentIsIncrementedCounter ==
    /\ [](\A k \in 1 .. Len(invocations) : invocations[k].step >= 1)
    /\ [][(StepTaken /\ last'.called)
          => /\ opt_step_calls' = opt_step_calls + 1
             /\ last'.opt.tag = "return"
             /\ Len(invocations') = Len(invocations) + 1
             /\ invocations'[Len(invocations')].step = _step + 1
             /\ invocations'[Len(invocations')].step = _step'
             /\ (_step = 0 => invocations'[Len(invocations')].step = 1)]_vars

\* the personality was called in the first and in the third step() call
C19_Witness ==
    /\ last.op = "step" /\ last.called
    /\ Len(invocations) = 2
    /\ invocations[1].step = 1
    /\ invocations[2].step = 3
    /\ _step = 3 /\ opt_step_calls = 3

(* C23: zero_grad() enters the wrapped optimizer's zero_grad() exactly once   *)
(* with the caller's positional and keyword arguments and returns its result; *)
(* it leaves the step counter and the previous loss unchanged and calls       *)
(* neither the personality nor print_fn, nor the wrapped step().              *)
C23_ZeroGradOnlyForwards ==
    [][ZeroGradTaken
       => /\ opt_zero_calls' = opt_zero_calls + 1
          /\ opt_step_calls' = opt_step_calls
          /\ opt_last'.args = last'.pos
          /\ opt_last'.kwargs = last'.kw
          /\ last'.outcome = "returned"
          /\ last'.value = Some(last'.opt.val)
          /\ _step' = _step
          /\ _prev_loss' = _prev_loss
          /\ losses' = losses
          /\ invocations' = invocations
          /\ printed' = printed
          /\ messages' = messages]_vars

\* after a step with a loss, zero_grad(v, set_to_none=w) returned the wrapped result
C23_Witness ==
    /\ last.op = "zero_grad"
    /\ last.pos /= <<>> /\ opt_last.args = last.pos
    /\ "set_to_none" \in DOMAIN opt_last.kwargs
    /\ last.value = Some("zeroed")
    /\ _step > 0 /\ _prev_loss /= None /\ printed > 0
    /\ opt_zero_calls > 0

C26_LossLessSteps ==
    (/\ ctor.called /\ Cadence > 0
     /\ ctor.enabled /\ ctor.personality = "echo" /\ ctor.print_fn = "capture")
    => /\ constructed
       /\ AllStepsReturned
            => /\ _step = Len(losses)
               /\ \A k \in 1 .. Len(losses) :
                     LET closes == k % Cadence = 0
                         inWindow == {i \in 1 .. k : i > k - Cadence /\ losses[i] /= None}
                     IN (\E j \in 1 .. Len(invocations) : invocations[j].step = k)
                        <=> (closes /\ inWindow /= {})

C28_OptimizerErrorPropagates ==
    [][(StepTaken /\ ~BindFails(last'.pos, last'.kw) /\ last'.opt.tag = "raise")
       => /\ opt_step_calls' = opt_step_calls + 1
          /\ last'.outcome = "raised"
          /\ last'.error = last'.opt.val
          /\ last'.value = None
          /\ ~last'.called /\ ~last'.emitted
          /\ _step' = _step
          /\ _prev_loss' = _prev_loss
          /\ losses' = losses
          /\ invocations' = invocations
          /\ printed' = printed
          /\ messages' = messages]_vars

\* after a step that emitted a message, a step with a loss failed in the optimizer
C28_Witness ==
    /\ constructed /\ enabled
    /\ last.op = "step" /\ last.loss /= None /\ last.opt.tag = "raise"
    /\ last.outcome = "raised"
    /\ _step = 1 /\ opt_step_calls = 2
    /\ _prev_loss /= None /\ _prev_loss /= last.loss
    /\ printed = 1

(* C29: an error raised by print_fn is not caught: it propagates to the       *)
(* caller of step() after the wrapped step() was entered and the step counter *)
(* incremented, and the previous loss is not updated by that call.            *)
C29_SinkErrorPropagates ==
    [][(StepTaken /\ last'.emitted /\ print_fn = "broken")
       => /\ last'.outcome = "raised"
          /\ last'.error = "SinkError"
          /\ last'.value = None
          /\ opt_step_calls' = opt_step_calls + 1
          /\ _step' = _step + 1
          /\ printed' = printed + 1
          /\ _prev_loss' = _prev_loss
          /\ step_raises' = step_raises + 1]_vars

\* the second step's message made print_fn raise: the counter is 2, the previous
\* loss is still unset although both steps supplied a loss
C29_Witness ==
    /\ constructed /\ print_fn = "broken"
    /\ last.op = "step" /\ last.emitted /\ last.outcome = "raised"
    /\ last.loss /= None
    /\ _step = 2 /\ opt_step_calls = 2
    /\ step_raises = 2
    /\ _prev_loss = None

----------------------------------------------------------------------------
(* The registry claims *)

RegisterTaken == reg_calls' = reg_calls + 1 /\ reg_last'.op = "register"
GetTaken == reg_calls' = reg_calls + 1 /\ reg_last'.op = "get"
ListTaken == reg_calls' = reg_calls + 1 /\ reg_last'.op = "list"

\* the elements of a list
Range(s) == {s[i] : i \in 1 .. Len(s)}
\* how many times x occurs in a list
Count(s, x) == Cardinality({i \in 1 .. Len(s) : s[i] = x})
\* every spelling of a name that differs from it in letter case only
CaseVariants(name) ==
    {[i \in 1 .. Len(name) |-> IF i \in S THEN UpperChar(name[i]) ELSE LowerChar(name[i])] :
        S \in SUBSET (1 .. Len(name))}
\* the name is one whole item of a ", "-separated list at the end of the text
ListsName(text, name) ==
    LET padded == text \o <<",", " ">>
        item == <<" ">> \o name \o <<",", " ">>
    IN \E j \in 0 .. (Len(padded) - Len(item)) :
          SubSeq(padded, j + 1, j + Len(item)) = item

(* C14: register_personality with a name that is already registered,         *)
(* compared case-insensitively, and overwrite false raises ValueError and     *)
(* leaves the registry as it was.                                             *)
C14_DuplicateRegistrationRejected ==
    [][(/\ RegisterTaken
        /\ ~reg_last'.overwrite
        /\ \E i \in 1 .. Len(registry) :
              registry[i].key \in CaseVariants(reg_last'.name))
       => /\ reg_last'.tag = "raise"
          /\ reg_last'.error = "ValueError"
          /\ registry' = registry]_vars

\* "ZEN" was registered without overwrite while "zen" is a built-in name
C14_Witness ==
    /\ reg_last.op = "register"
    /\ reg_last.name = <<"Z", "E", "N">>
    /\ ~reg_last.overwrite
    /\ reg_last.tag = "raise"
    /\ Lookup(registry, Str_zen) = "zen"

(* C15: after a successful register_personality(name, p), get_personality   *)
(* of that name returns p, list_personalities contains the lower-cased name   *)
(* exactly once, and every other registered name still maps to the           *)
(* personality it mapped to before.                                           *)
C15_RegisterThenGet ==
    [][(RegisterTaken /\ reg_last'.tag = "return")
       => LET key == [i \in 1 .. Len(reg_last'.name) |-> LowerChar(reg_last'.name[i])]
              got == get_personality(registry', reg_last'.name)
              others == (Range(Keys(registry)) \cup Range(Keys(registry'))) \ {key}
          IN /\ got.tag = "return"
             /\ got.value = reg_last'.personality
             /\ Count(list_personalities(registry'), key) = 1
             /\ \A k \in others :
                   /\ HasKey(registry, k)
                   /\ HasKey(registry', k)
                   /\ Count(Keys(registry'), k) = 1
                   /\ Lookup(registry', k) = Lookup(registry, k)]_vars

\* a built-in name was replaced with overwrite=True and a new name was added
C15_Witness ==
    /\ reg_last.op = "register"
    /\ reg_last.tag = "return"
    /\ reg_last.overwrite
    /\ reg_last.name = <<"Z", "e", "n">>
    /\ Lookup(registry, Str_zen) = reg_last.personality
    /\ HasKey(registry, <<"a", "b">>)
    /\ Len(registry) = Len(_PERSONALITY_REGISTRY) + 1

(* C16: names are case-insensitive: get_personality and                      *)
(* register_personality behave for every letter-case spelling of a name as   *)
(* they do for the name itself.                                               *)
C16_NamesAreCaseInsensitive ==
    [][/\ GetTaken
          => \A v \in CaseVariants(reg_last'.name) :
                LET o == get_personality(registry, v)
                IN o.tag = reg_last'.tag /\ o.value = reg_last'.value
       /\ RegisterTaken
          => \A v \in CaseVariants(reg_last'.name) :
                LET o == register_personality(registry, v, reg_last'.personality,
                                              reg_last'.overwrite)
                IN o.tag = reg_last'.tag /\ o.reg = registry']_vars

\* the personality registered over the key "zen" is found under "ZEN"
C16_Witness ==
    /\ reg_last.op = "get"
    /\ reg_last.name = <<"Z", "E", "N">>
    /\ reg_last.tag = "return"
    /\ reg_last.value \in CustomPersonalities
    /\ Lookup(registry, Str_zen) = reg_last.value

(* C17: get_personality of a name that is not registered raises KeyError,   *)
(* the message lists every registered name, and the registry is unchanged.    *)
C17_UnknownNameListsAll ==
    [][(/\ GetTaken
        /\ \A i \in 1 .. Len(registry) :
              registry[i].key \notin CaseVariants(reg_last'.name))
       => /\ reg_last'.tag = "raise"
          /\ reg_last'.error = "KeyError"
          /\ \A i \in 1 .. Len(registry) : ListsName(reg_last'.text, registry[i].key)
          /\ registry' = registry]_vars

\* an unknown name was looked up after a new name had been registered
C17_Witness ==
    /\ reg_last.op = "get"
    /\ reg_last.tag = "raise"
    /\ reg_last.name = <<"n", "o", "p", "e">>
    /\ Len(registry) > Len(_PERSONALITY_REGISTRY)
    /\ ListsName(reg_last.text, <<"a", "_", "b">>)

(* C18: list_personalities yields exactly the registered lower-cased names,  *)
(* each once, in ascending alphabetical order; listing again yields the same; *)
(* before any registration the names are the eleven built-ins.                *)
C18_ListIsSortedKeys ==
    [][ListTaken
       => LET L == reg_last'.listing
          IN /\ Range(L) = Range(Keys(registry))
             /\ \A x \in Range(L) : Count(L, x) = 1
             /\ \A x \in Range(L) : \A i \in 1 .. Len(x) : ~IsUpper(x[i])
             /\ \A i \in 1 .. Len(L) : \A j \in 1 .. Len(L) :
                   i < j => StrLess(L[i], L[j])
             /\ list_personalities(registry') = L
             /\ reg_calls = 0
                => L = <<Str_academic, Str_arrogant, Str_chaotic, Str_hype,
                         Str_nervous, Str_pirate, Str_quiet, Str_sassy, Str_tired,
                         Str_wholesome, Str_zen>>]_vars

\* the names were listed after two new names had been registered
C18_Witness ==
    /\ reg_last.op = "list"
    /\ Len(reg_last.listing) = Len(_PERSONALITY_REGISTRY) + 2
    /\ reg_last.listing[1] = <<"a", "_", "b">>
    /\ reg_last.listing[2] = <<"a", "b">>

----------------------------------------------------------------------------
(* The built-in personalities *)

\* the call returned a non-empty string
NonEmptyMessage(result) ==
    /\ result.tag = "return"
    /\ result.val /= None
    /\ result.val[1].text /= ""

\* the call is a first call (no previous loss) or the loss differs from the previous one
FirstOrChanged(c) == c.prev = None \/ c.loss[1] < c.prev[1] \/ c.loss[1] > c.prev[1]

(* C20 as stated: every built-in personality of the registry returns a        *)
(* non-empty string when the previous loss is None and when the loss is       *)
(* strictly lower or strictly higher than the previous one, at every step     *)
(* >= 1.                                                                      *)
C20_EveryBuiltinSpeaks ==
    (strat_last.op = "call" /\ strat_last.step >= 1 /\ FirstOrChanged(strat_last))
    => NonEmptyMessage(strat_last.result)

(* C20 amended: every built-in personality of the registry other than quiet   *)
(* returns a non-empty string when the previous loss is None and when the     *)
(* loss is strictly lower or strictly higher than the previous one, at every  *)
(* step >= 1; quiet returns a non-empty string exactly when the step is a     *)
(* multiple of its every_n_steps (10), whatever the losses, and None at       *)
(* every other step.                                                          *)
C20_EveryBuiltinButQuietSpeaks ==
    (strat_last.op = "call" /\ strat_last.step >= 1)
    => IF strat_last.fn = "quiet"
       THEN IF strat_last.step % every_n_steps = 0
            THEN NonEmptyMessage(strat_last.result)
            ELSE strat_last.result = Return(None)
       ELSE FirstOrChanged(strat_last) => NonEmptyMessage(strat_last.result)

\* quiet was called for the first time at a step that is a multiple of ten, and spoke
C20_Witness ==
    /\ strat_last.op = "call"
    /\ strat_last.fn = "quiet"
    /\ strat_last.prev = None
    /\ strat_last.step = every_n_steps
    /\ NonEmptyMessage(strat_last.result)

\* this transition is a direct call of a built-in personality
InvokeTaken == strat_last'.op = "call" /\ stratvars' /= stratvars

(* C21 as stated: quiet counts its own calls and returns a message on         *)
(* exactly every K-th call (K = every_n_steps), whatever step value it is     *)
(* passed.                                                                    *)
C21_QuietCountsItsCalls ==
    (strat_last.op = "call" /\ strat_last.fn = "quiet")
    => (NonEmptyMessage(strat_last.result) <=> quiet_calls % every_n_steps = 0)

(* C21 amended: quiet keeps no count of its calls: it returns a message       *)
(* exactly when the step value it is passed is a multiple of K                *)
(* (K = every_n_steps) and None otherwise, however often it was called        *)
(* before.                                                                    *)
C21_QuietFollowsStepArgument ==
    [][(InvokeTaken /\ strat_last'.fn = "quiet")
       => /\ quiet_calls' = quiet_calls + 1
          /\ IF strat_last'.step % every_n_steps = 0
             THEN /\ NonEmptyMessage(strat_last'.result)
                  /\ strat_last'.result.val[1].step = strat_last'.step
             ELSE strat_last'.result = Return(None)]_vars

\* the second call of quiet, at a step that is a multiple of K, returned a message
C21_Witness ==
    /\ strat_last.op = "call" /\ strat_last.fn = "quiet"
    /\ quiet_calls = MaxQuietCalls
    /\ quiet_calls % every_n_steps /= 0
    /\ strat_last.step % every_n_steps = 0
    /\ NonEmptyMessage(strat_last.result)

\* two calls in a row of the same personality with the same three arguments
SameInputsAgain ==
    /\ InvokeTaken
    /\ strat_last.op = "call"
    /\ strat_last'.fn = strat_last.fn
    /\ strat_last'.loss = strat_last.loss
    /\ strat_last'.prev = strat_last.prev
    /\ strat_last'.step = strat_last.step

----------------------------------------------------------------------------
(* Colours *)

\* the text holds an ANSI colour sequence: ESC [ parameters m
ContainsAnsi(text) ==
    \E i \in 1 .. Len(text) : \E j \in (i + 2) .. Len(text) :
        /\ text[i] = "ESC" /\ text[i + 1] = "["
        /\ \A k \in (i + 2) .. (j - 1) : text[k] \in AnsiParams
        /\ text[j] = "m"

(* C25: for every text that holds no ANSI escape sequence and every tuple of  *)
(* colour codes, strip_colors(colorize(text, codes)) is the text; colorize    *)
(* with no codes returns the text unchanged, and with at least one code the   *)
(* codes in order, then the text, then RESET.                                 *)
C25_StripUndoesColorize ==
    color_last.op = "colorize"
    => LET c == color_last
           n == Len(c.codes)
           starts == [k \in 1 .. n |->
                        Len(JoinCodes(SubSeq(c.codes, 1, k - 1))) + 1]
       IN /\ (n = 0 => c.colored = c.text)
          /\ (n > 0
               => /\ \A k \in 1 .. n :
                        SubSeq(c.colored, starts[k], starts[k] + Len(c.codes[k]) - 1)
                            = c.codes[k]
                  /\ Len(c.colored) = Len(JoinCodes(c.codes)) + Len(c.text) + Len(RESET)
                  /\ SubSeq(c.colored, Len(JoinCodes(c.codes)) + 1,
                            Len(JoinCodes(c.codes)) + Len(c.text)) = c.text
                  /\ SubSeq(c.colored, Len(c.colored) - Len(RESET) + 1, Len(c.colored))
                        = RESET)
          /\ (~ContainsAnsi(c.text) => c.stripped = c.text)

\* a text with the beginning of an escape sequence in it was coloured with two
\* codes and stripped again
C25_Witness ==
    /\ color_last.op = "colorize"
    /\ color_last.codes = <<GREEN, BOLD>>
    /\ color_last.text = <<"a", "ESC", "[">>
    /\ color_last.colored /= color_last.text
    /\ color_last.stripped = color_last.text

====
